---- MODULE Spec2Model ----
(***************************************************************************)
(* Model of the AHAS Go SDK rule synchronisation core:                     *)
(*   - meta.Meta / meta.InitMetadata           (src/meta/entity.go)        *)
(*   - datasource.InitAcm and its four handlers (src/unnamed/part_000)     *)
(*   - the legacy rule translators              (src/unnamed/part_001)     *)
(*                                                                         *)
(* Three specifications share the module:                                  *)
(*   SpecGate      InitMetadata, the transport's SetUid/SetTid and InitAcm *)
(*   SpecSync      the four change handlers driving the Rule Engine        *)
(*   SpecTranslate the pure translators applied to decoded legacy rules    *)
(*                                                                         *)
(* Number representations                                                  *)
(*   float64  : the integer 2*x (all modelled floats are multiples of 0.5) *)
(*   uint32   : two 16-bit limbs <<lo, hi>> where the width matters        *)
(*   uint64   : four 16-bit limbs, least significant first, where the      *)
(*              width matters (MaxAllowedRtMs); small naturals otherwise   *)
(*   strings  : TLA+ strings; type tags that are compared letter by letter *)
(*              are sequences of one-letter strings                        *)
(*                                                                         *)
(* Concurrency                                                             *)
(*   InitAcm runs on the caller's goroutine, SetUid/SetTid on the          *)
(*   transport's. The steps interleave at the granularity of the source's  *)
(*   statements and external calls. Meta's fields are not synchronised: a  *)
(*   read of m.uid or m.tid sees the value before or after a concurrent    *)
(*   setter (word-level tearing of the string header is not modelled).     *)
(*   The select's timer fires when WaitTimeoutSec seconds have passed;     *)
(*   when a token is in the channel at that moment either case may run.    *)
(*   A handler that panics takes the process down: no handler runs after.  *)
(***************************************************************************)
EXTENDS Integers, Sequences, FiniteSets, TLC

VARIABLES
    \* ---- SpecGate ----
    meta,       \* the process-wide *Meta singleton (fields used by the core)
    tidChan,    \* meta.tidChan: buffered channel of session tokens
    bootPc,     \* InitMetadata: "none" (not called), "ok", "err"
    pc,         \* InitAcm: "idle", "select", "create", "listen", "done"
    listenK,    \* InitAcm: index of the next ListenConfig call (1..4)
    timer,      \* seconds elapsed on InitAcm's time.After timer
    session,    \* config clients created by clients.CreateConfigClient
    attempts,   \* ListenConfig calls made, in order
    subs,       \* subscriptions registered (ListenConfig returned nil)
    ret,        \* InitAcm's return value
    tpc,        \* transport goroutine inside SetTid: "idle" or "send"
    tidArg,     \* SetTid's argument while it is between its two statements
    nSetTid,    \* SetTid calls started
    nSetUid,    \* SetUid calls made
    \* ---- the build ----
    arch,       \* GOARCH of the build: decides out-of-range float conversions
    \* ---- SpecSync ----
    engine,     \* the Rule Engine's current rule set of each category
    crashed,    \* the process died of an unrecovered panic
    handled,    \* change notifications delivered so far
    lastCat,    \* category of the last notification
    lastPayload,\* payload of the last notification
    lastOutcome,\* how its handler ended: "decodeErr", "loadErr", "loaded", "panic"
    lastArg,    \* the rule list its handler passed to LoadRules (if it got there)
    \* ---- SpecTranslate ----
    tIn,        \* a legacy rule as JSON: [cat, obj]
    tOut        \* what decoding and translating it gave

gateVars == <<meta, tidChan, bootPc, pc, listenK, timer, session, attempts,
              subs, ret, tpc, tidArg, nSetTid, nSetUid>>

syncVars == <<engine, crashed, handled, lastCat, lastPayload, lastOutcome,
              lastArg>>

transVars == <<tIn, tOut>>

vars == <<gateVars, arch, syncVars, transVars>>

-----------------------------------------------------------------------------
(* Bounds *)

\* SetTid / SetUid calls the transport layer makes
MaxSetTid == 2
MaxSetUid == 2
\* change notifications delivered, and entries in one notification's Data
MaxNotifs == 1
MaxBatch == 2
\* override items in one hot-spot rule
MaxItems == 2

-----------------------------------------------------------------------------
(* Program constants *)

AcmGroupId == "ahas-sentinel"
FlowRuleDataIdPrefix == "flow-rule-"
SystemRuleDataIdPrefix == "system-rule-"
CircuitBreakingRuleDataIdPrefix == "degrade-rule-"
ParamFlowRuleDataIdPrefix == "param-flow-rule-"

\* time.After(30 * time.Second)
WaitTimeoutSec == 30
\* make(chan string, 5)
TidChanCap == 5

\* sentinelConf.AppName(): fixed by the host application's configuration
AppName == "app"

-----------------------------------------------------------------------------
(* Data-id formation *)

formFlowRuleDataId(userId, namespace, appName) ==
    FlowRuleDataIdPrefix \o userId \o "-" \o namespace \o "-" \o appName

formSystemRuleDataId(userId, namespace, appName) ==
    SystemRuleDataIdPrefix \o userId \o "-" \o namespace \o "-" \o appName

formCircuitBreakingRuleDataId(userId, namespace, appName) ==
    CircuitBreakingRuleDataIdPrefix \o userId \o "-" \o namespace \o "-" \o appName

formParamFlowRuleDataId(userId, namespace, appName) ==
    ParamFlowRuleDataIdPrefix \o userId \o "-" \o namespace \o "-" \o appName

\* The category InitAcm subscribes with its k-th ListenConfig call.
ListenOrder == <<"flow", "system", "degrade", "paramflow">>

\* The DataId of InitAcm's k-th ListenConfig call.
ListenDataId(k, userId, namespace, appName) ==
    CASE k = 1 -> formFlowRuleDataId(userId, namespace, appName)
      [] k = 2 -> formSystemRuleDataId(userId, namespace, appName)
      [] k = 3 -> formCircuitBreakingRuleDataId(userId, namespace, appName)
      [] OTHER -> formParamFlowRuleDataId(userId, namespace, appName)

-----------------------------------------------------------------------------
(* Inputs of SpecGate *)

Licenses == {"", "lic"}
VpcUids == {"", "u0"}
Namespaces == {"default"}
ServerUids == {"u1", "u2"}
ServerTids == {"t1", "t2"}

NoRet == [kind |-> "none", k |-> 0]
NoSession == <<>>

\* var metadata = &Meta{version: CurrentSdkVersion, tidChan: make(chan string, 5)}
MetaInit ==
    [license |-> "", namespace |-> "", inVpc |-> FALSE, vpcId |-> "",
     uid |-> "", tid |-> ""]

GateIdle ==
    /\ meta = MetaInit
    /\ tidChan = <<>>
    /\ bootPc = "none"
    /\ pc = "idle"
    /\ listenK = 1
    /\ timer = 0
    /\ session = NoSession
    /\ attempts = <<>>
    /\ subs = <<>>
    /\ ret = NoRet
    /\ tpc = "idle"
    /\ tidArg = ""
    /\ nSetTid = 0
    /\ nSetUid = 0

-----------------------------------------------------------------------------
(* meta.InitMetadata *)

\* vpcErr/vpcUid: what aliyun.RetrieveVpcMetadata returns; ipErr: whether
\* resolvePrivateIp fails; envOk: whether the endpoint table supports the env.
InitMetadata(license, namespace, vpcErr, vpcUid, ipErr, envOk) ==
    /\ bootPc = "none"
    /\ LET m0 == [meta EXCEPT !.license = license, !.namespace = namespace]
       IN IF license = ""
          THEN IF vpcErr \/ vpcUid = ""
               THEN /\ meta' = m0
                    /\ bootPc' = "err"
               ELSE /\ meta' = [m0 EXCEPT !.inVpc = TRUE, !.vpcId = "vpc",
                                          !.uid = vpcUid]
                    /\ bootPc' = IF envOk THEN "ok" ELSE "err"
          ELSE IF ipErr
               THEN /\ meta' = [m0 EXCEPT !.inVpc = FALSE, !.vpcId = license]
                    /\ bootPc' = "err"
               ELSE /\ meta' = [m0 EXCEPT !.inVpc = FALSE, !.vpcId = license,
                                          !.uid = ""]
                    /\ bootPc' = IF envOk THEN "ok" ELSE "err"
    /\ UNCHANGED <<tidChan, pc, listenK, timer, session, attempts, subs, ret,
                   tpc, tidArg, nSetTid, nSetUid,
                   arch, syncVars, transVars>>

-----------------------------------------------------------------------------
(* meta.Meta setters, called by the transport layer *)

SetUid(uid) ==
    /\ bootPc = "ok"
    /\ nSetUid < MaxSetUid
    /\ meta' = [meta EXCEPT !.uid = uid]
    /\ nSetUid' = nSetUid + 1
    /\ UNCHANGED <<tidChan, bootPc, pc, listenK, timer, session, attempts,
                   subs, ret, tpc, tidArg, nSetTid,
                   arch, syncVars, transVars>>

\* SetTid, first statement: m.tid = tid
SetTidAssign(tid) ==
    /\ bootPc = "ok"
    /\ tpc = "idle"
    /\ nSetTid < MaxSetTid
    /\ meta' = [meta EXCEPT !.tid = tid]
    /\ tidArg' = tid
    /\ tpc' = "send"
    /\ nSetTid' = nSetTid + 1
    /\ UNCHANGED <<tidChan, bootPc, pc, listenK, timer, session, attempts,
                   subs, ret, nSetUid,
                   arch, syncVars, transVars>>

\* SetTid, second statement: m.tidChan <- tid (blocks while the buffer is full)
SetTidSend ==
    /\ tpc = "send"
    /\ Len(tidChan) < TidChanCap
    /\ tidChan' = Append(tidChan, tidArg)
    /\ tpc' = "idle"
    /\ tidArg' = ""
    /\ UNCHANGED <<meta, bootPc, pc, listenK, timer, session, attempts, subs,
                   ret, nSetTid, nSetUid,
                   arch, syncVars, transVars>>

-----------------------------------------------------------------------------
(* datasource.InitAcm *)

\* InitAcm is entered: ch := m.TidChan(); the select arms its 30 s timer.
InitAcmEnter ==
    /\ bootPc = "ok"
    /\ pc = "idle"
    /\ pc' = "select"
    /\ timer' = 0
    /\ UNCHANGED <<meta, tidChan, bootPc, listenK, session, attempts, subs,
                   ret, tpc, tidArg, nSetTid, nSetUid,
                   arch, syncVars, transVars>>

\* One second passes while InitAcm is blocked in the select. The timer fires
\* at WaitTimeoutSec, so the wait never lasts longer.
Tick ==
    /\ pc = "select"
    /\ timer < WaitTimeoutSec
    /\ timer' = timer + 1
    /\ UNCHANGED <<meta, tidChan, bootPc, pc, listenK, session, attempts,
                   subs, ret, tpc, tidArg, nSetTid, nSetUid,
                   arch, syncVars, transVars>>

\* case <-ch: break
SelectRecv ==
    /\ pc = "select"
    /\ Len(tidChan) > 0
    /\ tidChan' = Tail(tidChan)
    /\ pc' = "create"
    /\ UNCHANGED <<meta, bootPc, listenK, timer, session, attempts, subs, ret,
                   tpc, tidArg, nSetTid, nSetUid,
                   arch, syncVars, transVars>>

\* Mutant: the timeout branch taken without waiting for the timer.
SelectTimeoutEarly ==
    /\ pc = "select"
    /\ ret' = [kind |-> "timeout", k |-> 0]
    /\ pc' = "done"
    /\ UNCHANGED <<meta, tidChan, bootPc, listenK, timer, session, attempts,
                   subs, tpc, tidArg, nSetTid, nSetUid,
                   arch, syncVars, transVars>>

\* case <-time.After(30 * time.Second): return errors.New(...)
SelectTimeout ==
    /\ pc = "select"
    /\ timer >= WaitTimeoutSec
    /\ ret' = [kind |-> "timeout", k |-> 0]
    /\ pc' = "done"
    /\ UNCHANGED <<meta, tidChan, bootPc, listenK, timer, session, attempts,
                   subs, tpc, tidArg, nSetTid, nSetUid,
                   arch, syncVars, transVars>>

\* clients.CreateConfigClient with NamespaceId: m.Tid(); ok: whether it succeeds
CreateConfigClient(ok) ==
    /\ pc = "create"
    /\ IF ok
       THEN /\ session' = Append(session, [NamespaceId |-> meta.tid])
            /\ pc' = "listen"
            /\ ret' = ret
       ELSE /\ session' = session
            /\ pc' = "done"
            /\ ret' = [kind |-> "createErr", k |-> 0]
    /\ UNCHANGED <<meta, tidChan, bootPc, listenK, timer, attempts, subs,
                   tpc, tidArg, nSetTid, nSetUid,
                   arch, syncVars, transVars>>

\* Mutant: a failed registration is skipped and the next one attempted.
ListenConfigNoAbort(k, ok) ==
    /\ pc = "listen"
    /\ listenK = k
    /\ LET sub == [Group |-> AcmGroupId, Cat |-> ListenOrder[k],
                   DataId |-> ListenDataId(k, meta.uid, meta.namespace, AppName)]
       IN /\ attempts' = Append(attempts, sub)
          /\ subs' = IF ok THEN Append(subs, sub) ELSE subs
          /\ IF k = 4
             THEN /\ pc' = "done"
                  /\ ret' = IF ok THEN [kind |-> "nil", k |-> 0]
                                  ELSE [kind |-> "listenErr", k |-> k]
                  /\ listenK' = listenK
             ELSE /\ pc' = "listen"
                  /\ ret' = ret
                  /\ listenK' = k + 1
    /\ UNCHANGED <<meta, tidChan, bootPc, timer, session, tpc, tidArg,
                   nSetTid, nSetUid, arch, syncVars, transVars>>

\* The k-th configClient.ListenConfig call and the error check after it;
\* ok: whether the registration succeeds. After the fourth, return nil.
ListenConfig(k, ok) ==
    /\ pc = "listen"
    /\ listenK = k
    /\ LET sub == [Group |-> AcmGroupId, Cat |-> ListenOrder[k],
                   DataId |-> ListenDataId(k, meta.uid, meta.namespace, AppName)]
       IN /\ attempts' = Append(attempts, sub)
          /\ IF ok
             THEN /\ subs' = Append(subs, sub)
                  /\ IF k = 4
                     THEN /\ pc' = "done"
                          /\ ret' = [kind |-> "nil", k |-> 0]
                          /\ listenK' = listenK
                     ELSE /\ pc' = "listen"
                          /\ ret' = ret
                          /\ listenK' = k + 1
             ELSE /\ subs' = subs
                  /\ pc' = "done"
                  /\ ret' = [kind |-> "listenErr", k |-> k]
                  /\ listenK' = listenK
    /\ UNCHANGED <<meta, tidChan, bootPc, timer, session, tpc, tidArg,
                   nSetTid, nSetUid,
                   arch, syncVars, transVars>>

-----------------------------------------------------------------------------
(* Numbers *)

Platforms == {"amd64", "arm64"}

\* One 16-bit limb holds 0 .. LimbBase-1.
LimbBase == 2^16

\* The JSON number n (an integer) and the float64 n, as twice their value.
N(n) == 2 * n
\* 0.5, to be added to a JSON number or float64.
Half == N(1) \div 2

\* float64(i) for an int64 i. Exact for |i| <= 2^53, which covers every
\* integer of the model.
Float64OfInt(i) == 2 * i

\* Truncation toward zero of the float64 f.
Trunc(f) == IF f >= 0 THEN f \div 2 ELSE -((-f) \div 2)

\* int64(f) for a float64 f within int64's range.
Int64OfFloat64(f) == Trunc(f)

\* The uint64 n (0 <= n < 2^31) as limbs.
U64(n) == <<n % LimbBase, n \div LimbBase, 0, 0>>

\* uint64(f) for a float64 f. A non-negative f in range is truncated. The
\* language leaves the conversion of a value uint64 cannot hold to the
\* implementation: for a negative f (truncating to -t, t >= 1) amd64 converts
\* through int64 and yields 2^64 - t, arm64 (FCVTZU) saturates to 0.
Uint64OfFloat64(f) ==
    IF Trunc(f) >= 0
    THEN U64(Trunc(f))
    ELSE IF arch = "amd64"
         THEN LET m == (-Trunc(f)) - 1
              IN <<(LimbBase - 1) - (m % LimbBase), (LimbBase - 1) - (m \div LimbBase),
                   LimbBase - 1, LimbBase - 1>>
         ELSE U64(0)

\* The uint32 n (0 <= n < 2^31) as limbs.
U32(n) == <<n % LimbBase, n \div LimbBase>>

\* x * 1000 in uint32 arithmetic: the product modulo 2^32.
MulU32By1000(x) ==
    LET p0 == x[1] * 1000
        p1 == x[2] * 1000 + (p0 \div LimbBase)
    IN <<p0 % LimbBase, p1 % LimbBase>>

DigitChars == <<"0", "1", "2", "3", "4", "5", "6", "7", "8", "9">>

\* strconv.FormatUint(n, 10)
RECURSIVE FormatUint(_)
FormatUint(n) ==
    IF n < 10 THEN DigitChars[n + 1]
    ELSE FormatUint(n \div 10) \o DigitChars[(n % 10) + 1]

\* strconv.Itoa(i)
Itoa(i) == IF i < 0 THEN "-" \o FormatUint(-i) ELSE FormatUint(i)

-----------------------------------------------------------------------------
(* encoding/json: decoding one legacy rule object                          *)
(* A JSON object is a record of the keys it has; a JSON number is twice    *)
(* its value; a key the object lacks leaves the struct field at its zero.  *)

Field(obj, key, zero) == IF key \in DOMAIN obj THEN obj[key] ELSE zero

\* Whether the number at key (if any) decodes into a signed integer field.
IntOk(obj, key) == Field(obj, key, 0) % 2 = 0
\* Whether it decodes into an unsigned integer field.
UintOk(obj, key) == IntOk(obj, key) /\ Field(obj, key, 0) >= 0
\* The integer it decodes to.
IntField(obj, key) == Field(obj, key, 0) \div 2

FlowDecodable(obj) ==
    /\ UintOk(obj, "id") /\ IntOk(obj, "grade") /\ IntOk(obj, "strategy")
    /\ IntOk(obj, "controlBehavior") /\ UintOk(obj, "warmUpPeriodSec")
    /\ UintOk(obj, "maxQueueingTimeMs")

DecodeFlowRule(obj) ==
    [ID |-> IntField(obj, "id"),
     Resource |-> Field(obj, "resource", ""),
     LimitOrigin |-> Field(obj, "limitApp", ""),
     MetricType |-> IntField(obj, "grade"),
     Count |-> Field(obj, "count", 0),
     Strategy |-> IntField(obj, "strategy"),
     ControlBehavior |-> IntField(obj, "controlBehavior"),
     RefResource |-> Field(obj, "refResource", ""),
     WarmUpPeriodSec |-> IntField(obj, "warmUpPeriodSec"),
     MaxQueueingTimeMs |-> IntField(obj, "maxQueueingTimeMs"),
     ClusterMode |-> Field(obj, "clusterMode", FALSE)]

SystemDecodable(obj) ==
    UintOk(obj, "id") /\ IntOk(obj, "avgRt") /\ IntOk(obj, "maxThread")

DecodeSystemRule(obj) ==
    [ID |-> IntField(obj, "id"),
     Resource |-> Field(obj, "resource", ""),
     HighestSystemLoad |-> Field(obj, "highestSystemLoad", 0),
     HighestCpuUsage |-> Field(obj, "highestCpuUsage", 0),
     InboundQps |-> Field(obj, "qps", 0),
     AvgRt |-> IntField(obj, "avgRt"),
     MaxConcurrency |-> IntField(obj, "maxThread")]

DegradeDecodable(obj) ==
    /\ UintOk(obj, "id") /\ UintOk(obj, "grade") /\ UintOk(obj, "timeWindow")
    /\ UintOk(obj, "minRequestAmount") /\ UintOk(obj, "statIntervalMs")

DecodeDegradeRule(obj) ==
    [ID |-> IntField(obj, "id"),
     Resource |-> Field(obj, "resource", ""),
     Threshold |-> Field(obj, "count", 0),
     Strategy |-> IntField(obj, "grade"),
     RetryTimeoutSec |-> U32(IntField(obj, "timeWindow")),
     MinRequestAmount |-> IntField(obj, "minRequestAmount"),
     SlowRatioThreshold |-> Field(obj, "slowRatioThreshold", 0),
     StatIntervalMs |-> IntField(obj, "statIntervalMs")]

\* An entry of a JSON array of objects: null, or an object.
Null == [null |-> TRUE]
Obj(o) == [null |-> FALSE, obj |-> o]
HasNull(list) == \E i \in 1..Len(list) : list[i].null

DecodeParamFlowItem(obj) ==
    [Value |-> Field(obj, "object", ""),
     Threshold |-> Field(obj, "count", 0),
     ParamType |-> Field(obj, "classType", <<>>)]

ParamFlowDecodable(obj) ==
    /\ UintOk(obj, "id") /\ IntOk(obj, "grade") /\ IntOk(obj, "paramIdx")
    /\ IntOk(obj, "durationInSec") /\ UintOk(obj, "controlBehavior")
    /\ IntOk(obj, "maxQueueingTimeMs") /\ IntOk(obj, "burstCount")

\* SpecificItems keeps the array's nulls as nil pointers.
DecodeParamFlowRule(obj) ==
    [Id |-> IntField(obj, "id"),
     Resource |-> Field(obj, "resource", ""),
     MetricType |-> IntField(obj, "grade"),
     Threshold |-> Field(obj, "count", 0),
     ParamIndex |-> IntField(obj, "paramIdx"),
     DurationInSec |-> IntField(obj, "durationInSec"),
     ControlBehavior |-> IntField(obj, "controlBehavior"),
     MaxQueueingTimeMs |-> IntField(obj, "maxQueueingTimeMs"),
     BurstCount |-> IntField(obj, "burstCount"),
     SpecificItems |->
        LET l == Field(obj, "paramFlowItemList", <<>>)
        IN [i \in 1..Len(l) |->
              IF l[i].null THEN Null ELSE Obj(DecodeParamFlowItem(l[i].obj))],
     ClusterMode |-> Field(obj, "clusterMode", FALSE)]

-----------------------------------------------------------------------------
(* The legacy rule translators *)

\* What ToGoRule returns instead of a rule.
Nil == [nil |-> TRUE]

FlowToGoRule(lr) ==
    [ID |-> lr.ID,
     Resource |-> lr.Resource,
     LimitOrigin |-> lr.LimitOrigin,
     MetricType |-> lr.MetricType,
     Count |-> lr.Count,
     RelationStrategy |-> lr.Strategy,
     ControlBehavior |-> lr.ControlBehavior,
     RefResource |-> lr.RefResource,
     WarmUpPeriodSec |-> lr.WarmUpPeriodSec,
     MaxQueueingTimeMs |-> lr.MaxQueueingTimeMs,
     ClusterMode |-> lr.ClusterMode]

\* sentinel-golang's system.MetricType enumeration
Load == 0
AvgRT == 1
Concurrency == 2
InboundQPS == 3
CpuUsage == 4
\* system.MetricType(404)
InvalidMetricType == 404

\* Mutant: a field counts only when it is > 0.
resolveTypeAndCountStrict(lr) ==
    IF lr.AvgRt > 0 THEN <<AvgRT, Float64OfInt(lr.AvgRt)>>
    ELSE IF lr.MaxConcurrency > 0
         THEN <<Concurrency, Float64OfInt(lr.MaxConcurrency)>>
    ELSE IF lr.InboundQps > 0 THEN <<InboundQPS, lr.InboundQps>>
    ELSE IF lr.HighestCpuUsage > 0 THEN <<CpuUsage, lr.HighestCpuUsage>>
    ELSE IF lr.HighestSystemLoad > 0 THEN <<Load, lr.HighestSystemLoad>>
    ELSE <<InvalidMetricType, N(-1)>>

resolveTypeAndCount(lr) ==
    IF lr.AvgRt >= 0 THEN <<AvgRT, Float64OfInt(lr.AvgRt)>>
    ELSE IF lr.MaxConcurrency >= 0
         THEN <<Concurrency, Float64OfInt(lr.MaxConcurrency)>>
    ELSE IF lr.InboundQps >= 0 THEN <<InboundQPS, lr.InboundQps>>
    ELSE IF lr.HighestCpuUsage >= 0 THEN <<CpuUsage, lr.HighestCpuUsage>>
    ELSE IF lr.HighestSystemLoad >= 0 THEN <<Load, lr.HighestSystemLoad>>
    ELSE <<InvalidMetricType, N(-1)>>

SystemToGoRule(lr) ==
    LET tc == resolveTypeAndCount(lr)
        mt == tc[1]
        count == tc[2]
        adaptive == IF mt = Load \/ mt = CpuUsage THEN "BBR" ELSE "NoAdaptive"
    IN [ID |-> lr.ID,
        TriggerCount |-> count,
        MetricType |-> mt,
        Strategy |-> adaptive]

\* Mutant: grade 0 assigns the two legacy fields the other way round.
DegradeToGoRuleSwapped(lr) ==
    LET rule == [Id |-> FormatUint(lr.ID),
                 Resource |-> lr.Resource,
                 Strategy |-> "SlowRequestRatio",
                 StatIntervalMs |-> lr.StatIntervalMs,
                 RetryTimeoutMs |-> MulU32By1000(lr.RetryTimeoutSec),
                 Threshold |-> lr.Threshold,
                 MinRequestAmount |-> lr.MinRequestAmount,
                 MaxAllowedRtMs |-> U64(0)]
    IN CASE lr.Strategy = 0 ->
              [rule EXCEPT !.Strategy = "SlowRequestRatio",
                           !.Threshold = lr.Threshold,
                           !.MaxAllowedRtMs = Uint64OfFloat64(lr.SlowRatioThreshold)]
         [] lr.Strategy = 1 -> [rule EXCEPT !.Strategy = "ErrorRatio"]
         [] lr.Strategy = 2 -> [rule EXCEPT !.Strategy = "ErrorCount"]
         [] OTHER -> Nil

DegradeToGoRule(lr) ==
    LET rule == [Id |-> FormatUint(lr.ID),
                 Resource |-> lr.Resource,
                 Strategy |-> "SlowRequestRatio",
                 StatIntervalMs |-> lr.StatIntervalMs,
                 RetryTimeoutMs |-> MulU32By1000(lr.RetryTimeoutSec),
                 Threshold |-> lr.Threshold,
                 MinRequestAmount |-> lr.MinRequestAmount,
                 MaxAllowedRtMs |-> U64(0)]
    IN CASE lr.Strategy = 0 ->
              [rule EXCEPT !.Strategy = "SlowRequestRatio",
                           !.Threshold = lr.SlowRatioThreshold,
                           !.MaxAllowedRtMs = Uint64OfFloat64(lr.Threshold)]
         [] lr.Strategy = 1 -> [rule EXCEPT !.Strategy = "ErrorRatio"]
         [] lr.Strategy = 2 -> [rule EXCEPT !.Strategy = "ErrorCount"]
         [] OTHER -> Nil

\* The letters of a Go string literal used as a type tag.
TagInt == <<"i", "n", "t">>
TagLong == <<"l", "o", "n", "g">>
TagBool == <<"b", "o", "o", "l">>
TagBoolean == <<"b", "o", "o", "l", "e", "a", "n">>
TagDouble == <<"d", "o", "u", "b", "l", "e">>
TagFloat == <<"f", "l", "o", "a", "t">>

\* The ValKind chosen for an override item of type tag paramType.
ParamKind(paramType) ==
    IF paramType = TagInt \/ paramType = TagLong THEN "KindInt"
    ELSE IF paramType = TagBool \/ paramType = TagBoolean THEN "KindBool"
    ELSE IF paramType = TagDouble \/ paramType = TagFloat THEN "KindFloat64"
    ELSE "KindString"

\* The loop over lr.SpecificItems (none of them nil).
RECURSIVE SpecificValues(_)
SpecificValues(items) ==
    IF items = <<>> THEN <<>>
    ELSE LET v == Head(items).obj
         IN IF Len(v.Value) = 0
            THEN SpecificValues(Tail(items))
            ELSE <<[ValKind |-> ParamKind(v.ParamType),
                    ValStr |-> v.Value,
                    Threshold |-> Int64OfFloat64(v.Threshold)]>>
                 \o SpecificValues(Tail(items))

\* ToGoRule dereferences every item: a nil item is a nil-pointer panic.
ParamFlowPanics(lr) == HasNull(lr.SpecificItems)

ParamsMaxCapacity == 500

ParamFlowToGoRule(lr) ==
    LET cb == IF lr.ControlBehavior = 2 THEN "Throttling" ELSE "Reject"
        items == SpecificValues(lr.SpecificItems)
    IN [ID |-> Itoa(lr.Id),
        Resource |-> lr.Resource,
        MetricType |-> lr.MetricType,
        Threshold |-> lr.Threshold,
        ControlBehavior |-> cb,
        ParamIndex |-> lr.ParamIndex,
        MaxQueueingTimeMs |-> lr.MaxQueueingTimeMs,
        BurstCount |-> lr.BurstCount,
        DurationInSec |-> lr.DurationInSec,
        ParamsMaxCapacity |-> ParamsMaxCapacity,
        SpecificItems |-> items]

-----------------------------------------------------------------------------
(* The change handlers *)

\* A notification payload: text json.Unmarshal rejects outright (malformed),
\* or an envelope whose Data array holds nulls and legacy rule objects.
Malformed == [malformed |-> TRUE, Data |-> <<>>]
Envelope(data) == [malformed |-> FALSE, Data |-> data]

\* Whether obj decodes into the legacy struct of category cat.
Decodable(cat, obj) ==
    CASE cat = "flow" -> FlowDecodable(obj)
      [] cat = "system" -> SystemDecodable(obj)
      [] cat = "degrade" -> DegradeDecodable(obj)
      [] OTHER -> ParamFlowDecodable(obj)

\* json.Unmarshal([]byte(data), d) returns nil.
Unmarshals(cat, payload) ==
    /\ ~payload.malformed
    /\ \A i \in 1..Len(payload.Data) :
          payload.Data[i].null \/ Decodable(cat, payload.Data[i].obj)

\* The handlers' loops, over a Data slice without nil entries:
\* append every rule ToGoRule returns that is not nil.
RECURSIVE FlowArr(_)
FlowArr(data) ==
    IF data = <<>> THEN <<>>
    ELSE LET rule == FlowToGoRule(DecodeFlowRule(Head(data).obj))
         IN IF rule # Nil THEN <<rule>> \o FlowArr(Tail(data))
            ELSE FlowArr(Tail(data))

RECURSIVE SystemArr(_)
SystemArr(data) ==
    IF data = <<>> THEN <<>>
    ELSE LET rule == SystemToGoRule(DecodeSystemRule(Head(data).obj))
         IN IF rule # Nil THEN <<rule>> \o SystemArr(Tail(data))
            ELSE SystemArr(Tail(data))

\* Mutant: the loop ends at the first rule ToGoRule gives nil for.
RECURSIVE DegradeArrStopAtNil(_)
DegradeArrStopAtNil(data) ==
    IF data = <<>> THEN <<>>
    ELSE LET rule == DegradeToGoRule(DecodeDegradeRule(Head(data).obj))
         IN IF rule # Nil THEN <<rule>> \o DegradeArrStopAtNil(Tail(data))
            ELSE <<>>

RECURSIVE DegradeArr(_)
DegradeArr(data) ==
    IF data = <<>> THEN <<>>
    ELSE LET rule == DegradeToGoRule(DecodeDegradeRule(Head(data).obj))
         IN IF rule # Nil THEN <<rule>> \o DegradeArr(Tail(data))
            ELSE DegradeArr(Tail(data))

RECURSIVE ParamFlowArr(_)
ParamFlowArr(data) ==
    IF data = <<>> THEN <<>>
    ELSE LET rule == ParamFlowToGoRule(DecodeParamFlowRule(Head(data).obj))
         IN IF rule # Nil THEN <<rule>> \o ParamFlowArr(Tail(data))
            ELSE ParamFlowArr(Tail(data))

\* r.ToGoRule() on a nil r reads a field through the nil pointer.
DataPanics(data) == HasNull(data)

ParamFlowDataPanics(data) ==
    \/ HasNull(data)
    \/ \E i \in 1..Len(data) : ParamFlowPanics(DecodeParamFlowRule(data[i].obj))

\* One run of a handler on payload. decoded: json.Unmarshal returned nil;
\* panics: the loop dereferences a nil pointer; arr: the list the loop builds;
\* ok: whether the Rule Engine's LoadRules accepts the list.
Handle(cat, payload, decoded, panics, arr, ok) ==
    /\ ~crashed
    /\ handled < MaxNotifs
    /\ UNCHANGED <<gateVars, arch, transVars>>
    /\ handled' = handled + 1
    /\ lastPayload' = payload
    /\ IF ~decoded
       THEN /\ lastOutcome' = "decodeErr"
            /\ UNCHANGED <<engine, crashed, lastArg>>
       ELSE IF panics
       THEN /\ lastOutcome' = "panic"
            /\ crashed' = TRUE
            /\ UNCHANGED <<engine, lastArg>>
       ELSE /\ lastArg' = arr
            /\ crashed' = FALSE
            /\ IF ok
               THEN /\ engine' = [engine EXCEPT ![cat] = arr]
                    /\ lastOutcome' = "loaded"
               ELSE /\ engine' = engine
                    /\ lastOutcome' = "loadErr"

onFlowRuleChange(payload, ok) ==
    /\ lastCat' = "flow"
    /\ LET decoded == Unmarshals("flow", payload)
           panics == decoded /\ DataPanics(payload.Data)
           arr == IF decoded /\ ~panics THEN FlowArr(payload.Data) ELSE <<>>
       IN Handle("flow", payload, decoded, panics, arr, ok)

onSystemRuleChange(payload, ok) ==
    /\ lastCat' = "system"
    /\ LET decoded == Unmarshals("system", payload)
           panics == decoded /\ DataPanics(payload.Data)
           arr == IF decoded /\ ~panics THEN SystemArr(payload.Data) ELSE <<>>
       IN Handle("system", payload, decoded, panics, arr, ok)

onCircuitBreakingRuleChange(payload, ok) ==
    /\ lastCat' = "degrade"
    /\ LET decoded == Unmarshals("degrade", payload)
           panics == decoded /\ DataPanics(payload.Data)
           arr == IF decoded /\ ~panics THEN DegradeArr(payload.Data) ELSE <<>>
       IN Handle("degrade", payload, decoded, panics, arr, ok)

onParamFlowRuleChange(payload, ok) ==
    /\ lastCat' = "paramflow"
    /\ LET decoded == Unmarshals("paramflow", payload)
           panics == decoded /\ ParamFlowDataPanics(payload.Data)
           arr == IF decoded /\ ~panics THEN ParamFlowArr(payload.Data) ELSE <<>>
       IN Handle("paramflow", payload, decoded, panics, arr, ok)

-----------------------------------------------------------------------------
(* Inputs of SpecSync and SpecTranslate *)

\* Sequences over S of length at most n.
SeqsUpTo(S, n) == UNION {[1..k -> S] : k \in 0..n}

EmptyObj == [k \in {} |-> 0]
\* The object {key: c[1]}, or {} when the choice c is <<>> (key absent).
Opt(key, c) == IF c = <<>> THEN EmptyObj ELSE key :> c[1]

FlowObjs ==
    {[resource |-> "r1", grade |-> N(1), count |-> N(10)],
     [resource |-> "r2", grade |-> N(1), count |-> N(5), controlBehavior |-> Half]}

SystemObjs ==
    {Opt("avgRt", a) @@ Opt("maxThread", m) @@ Opt("qps", q)
       @@ Opt("highestCpuUsage", c) @@ Opt("highestSystemLoad", l) :
       a \in {<<>>, <<N(-1)>>, <<N(0)>>, <<N(3)>>, <<N(1) + Half>>},
       m \in {<<>>, <<N(-1)>>, <<N(0)>>, <<N(4)>>},
       q \in {<<>>, <<N(-1)>>, <<Half>>, <<N(100)>>},
       c \in {<<>>, <<N(-1)>>, <<N(0)>>, <<Half>>},
       l \in {<<>>, <<N(-1)>>, <<N(2) + Half>>, <<N(8)>>}}

\* The system rules the handlers are fed: one per metric, and two that
\* resolve to no metric.
SystemSyncObjs ==
    {[avgRt |-> N(-1), maxThread |-> N(-1), qps |-> N(-1),
      highestCpuUsage |-> N(-1), highestSystemLoad |-> N(-1)],
     [avgRt |-> N(-1), maxThread |-> N(-1), qps |-> N(-1),
      highestCpuUsage |-> N(-1), highestSystemLoad |-> N(3)],
     [avgRt |-> N(20)]}

DegradeObjs ==
    {[resource |-> "r1", count |-> cnt, slowRatioThreshold |-> Half]
       @@ Opt("id", id) @@ Opt("grade", g) @@ Opt("timeWindow", w) :
       cnt \in {N(-2), N(-1) - Half, 0 - Half, N(0), Half, N(1) + Half, N(200)},
       id \in {<<>>, <<N(12)>>},
       g \in {<<>>, <<N(0)>>, <<N(1)>>, <<N(2)>>, <<N(3)>>, <<N(1) + Half>>},
       w \in {<<>>, <<N(1)>>, <<N(60)>>, <<N(4294967)>>, <<N(4294968)>>,
              <<N(1073741823)>>}}

DegradeSyncObjs ==
    {[resource |-> "r1", grade |-> N(0), count |-> N(200), timeWindow |-> N(10),
      slowRatioThreshold |-> Half],
     [resource |-> "r2", grade |-> N(2), count |-> N(5), timeWindow |-> N(1)],
     [resource |-> "r4", grade |-> N(1), count |-> Half, id |-> N(9)],
     [resource |-> "r3", grade |-> N(3), count |-> N(1)]}

TypeTags ==
    {TagInt, TagLong, TagBool, TagBoolean, TagDouble, TagFloat,
     <<"I", "n", "t">>, <<"L", "O", "N", "G">>,
     <<"B", "o", "o", "l", "e", "a", "n">>, <<"F", "l", "o", "a", "t">>,
     <<"S", "t", "r", "i", "n", "g">>, <<"i", "n", "t", "e", "g", "e", "r">>,
     <<>>}

ParamItems ==
    {Null}
    \cup {Obj([object |-> "v", count |-> N(5), classType |-> t]) : t \in TypeTags}
    \cup {Obj([object |-> "", count |-> N(5), classType |-> TagInt]),
          Obj([object |-> "v", count |-> N(-2) - Half])}

ParamFlowObjs ==
    {[resource |-> "r1", count |-> N(10), paramFlowItemList |-> items]
       @@ Opt("controlBehavior", cb) @@ Opt("id", id) :
       items \in SeqsUpTo(ParamItems, MaxItems),
       cb \in {<<>>, <<N(2)>>},
       id \in {<<>>, <<N(305)>>}}

ParamFlowSyncObjs ==
    {[resource |-> "r1", count |-> N(10)],
     [resource |-> "r2", count |-> N(10), paramFlowItemList |-> <<Null>>]}

Payloads(objs) ==
    {Malformed} \cup {Envelope(d) : d \in SeqsUpTo({Null} \cup {Obj(o) : o \in objs}, MaxBatch)}

-----------------------------------------------------------------------------
(* Translating one legacy rule: json.Unmarshal into the legacy struct, then *)
(* ToGoRule                                                                 *)

NotRun == [kind |-> "none"]
Produced(rule) == IF rule = Nil THEN [kind |-> "nil"] ELSE [kind |-> "rule", rule |-> rule]

TranslateFlow ==
    /\ tIn.cat = "flow" /\ tOut = NotRun
    /\ tOut' = IF ~FlowDecodable(tIn.obj) THEN [kind |-> "decodeErr"]
               ELSE Produced(FlowToGoRule(DecodeFlowRule(tIn.obj)))
    /\ UNCHANGED <<tIn, gateVars, arch, syncVars>>

TranslateSystem ==
    /\ tIn.cat = "system" /\ tOut = NotRun
    /\ tOut' = IF ~SystemDecodable(tIn.obj) THEN [kind |-> "decodeErr"]
               ELSE Produced(SystemToGoRule(DecodeSystemRule(tIn.obj)))
    /\ UNCHANGED <<tIn, gateVars, arch, syncVars>>

TranslateDegrade ==
    /\ tIn.cat = "degrade" /\ tOut = NotRun
    /\ tOut' = IF ~DegradeDecodable(tIn.obj) THEN [kind |-> "decodeErr"]
               ELSE Produced(DegradeToGoRule(DecodeDegradeRule(tIn.obj)))
    /\ UNCHANGED <<tIn, gateVars, arch, syncVars>>

TranslateParamFlow ==
    /\ tIn.cat = "paramflow" /\ tOut = NotRun
    /\ tOut' = IF ~ParamFlowDecodable(tIn.obj) THEN [kind |-> "decodeErr"]
               ELSE IF ParamFlowPanics(DecodeParamFlowRule(tIn.obj))
               THEN [kind |-> "panic"]
               ELSE Produced(ParamFlowToGoRule(DecodeParamFlowRule(tIn.obj)))
    /\ UNCHANGED <<tIn, gateVars, arch, syncVars>>

-----------------------------------------------------------------------------
(* Specifications *)

SyncIdle ==
    /\ engine = [c \in {"flow", "system", "degrade", "paramflow"} |-> <<>>]
    /\ crashed = FALSE
    /\ handled = 0
    /\ lastCat = "none"
    /\ lastPayload = Envelope(<<>>)
    /\ lastOutcome = "none"
    /\ lastArg = <<>>

TransIdle ==
    /\ tIn = [cat |-> "none", obj |-> EmptyObj]
    /\ tOut = NotRun

InitGate ==
    /\ GateIdle /\ SyncIdle /\ TransIdle
    /\ arch \in Platforms

NextGate ==
    \/ \E l \in Licenses, ns \in Namespaces, ve \in BOOLEAN, vu \in VpcUids,
          ie \in BOOLEAN, eo \in BOOLEAN : InitMetadata(l, ns, ve, vu, ie, eo)
    \/ \E u \in ServerUids : SetUid(u)
    \/ \E t \in ServerTids : SetTidAssign(t)
    \/ SetTidSend
    \/ InitAcmEnter
    \/ Tick
    \/ SelectRecv
    \/ SelectTimeout
    \/ \E ok \in BOOLEAN : CreateConfigClient(ok)
    \/ \E k \in 1..4, ok \in BOOLEAN : ListenConfig(k, ok)

SpecGate == InitGate /\ [][NextGate]_vars

InitSync ==
    /\ GateIdle /\ SyncIdle /\ TransIdle
    /\ arch \in Platforms

NextSync ==
    \/ \E p \in Payloads(FlowObjs), ok \in BOOLEAN : onFlowRuleChange(p, ok)
    \/ \E p \in Payloads(SystemSyncObjs), ok \in BOOLEAN : onSystemRuleChange(p, ok)
    \/ \E p \in Payloads(DegradeSyncObjs), ok \in BOOLEAN :
          onCircuitBreakingRuleChange(p, ok)
    \/ \E p \in Payloads(ParamFlowSyncObjs), ok \in BOOLEAN :
          onParamFlowRuleChange(p, ok)

SpecSync == InitSync /\ [][NextSync]_vars

InitTranslate ==
    /\ GateIdle /\ SyncIdle
    /\ arch \in Platforms
    /\ tIn \in [cat : {"flow"}, obj : FlowObjs]
         \cup [cat : {"system"}, obj : SystemObjs]
         \cup [cat : {"degrade"}, obj : DegradeObjs]
         \cup [cat : {"paramflow"}, obj : ParamFlowObjs]
    /\ tOut = NotRun

NextTranslate ==
    \/ TranslateFlow
    \/ TranslateSystem
    \/ TranslateDegrade
    \/ TranslateParamFlow

SpecTranslate == InitTranslate /\ [][NextTranslate]_vars

-----------------------------------------------------------------------------
(* Properties of the readiness gate and the subscription fan-out (SpecGate) *)

\* SetTid calls that have completed their channel send.
Delivered == nSetTid - (IF tpc = "send" THEN 1 ELSE 0)
\* Tokens InitAcm has taken off the channel.
Received == Delivered - Len(tidChan)

\* C1: InitAcm creates the session and registers subscriptions only after it
\* has received a token that SetTid delivered on the token channel; when it
\* returns the timeout error the full 30 seconds have elapsed, no token was
\* received, and neither a session nor a subscription exists; and when no
\* token was ever delivered the timeout error is what it returns.
C1_GateBeforeSession ==
    /\ (session # <<>> \/ attempts # <<>> \/ subs # <<>> \/ pc \in {"create", "listen"})
          => (Delivered >= 1 /\ Received = 1)
    /\ ret.kind = "timeout"
          => /\ timer >= 30
             /\ Received = 0
             /\ session = <<>> /\ attempts = <<>> /\ subs = <<>>
    /\ (pc = "done" /\ Received = 0) => ret.kind = "timeout"
    /\ timer <= 30

\* C1 witness: the token arrived while InitAcm was waiting, and InitAcm went
\* on to create the session and register all four subscriptions.
C1_Witness ==
    /\ pc = "done" /\ ret.kind = "nil"
    /\ timer > 0 /\ timer < 30
    /\ Len(session) = 1 /\ Len(subs) = 4

\* C1, the other case: InitAcm gave up after the full wait.
C1_TimeoutReached == pc = "done" /\ ret.kind = "timeout" /\ nSetTid = 0

\* C2: the registrations are attempted in the order flow, system,
\* circuit-breaking, hot-spot; the registered ones are exactly the attempts
\* before the first failure; a failure of the k-th registration (or of the
\* session creation) ends InitAcm with that error at once, leaving the k-1
\* earlier registrations in place; nil is returned exactly when all four
\* registrations succeeded.
C2_OrderedFailFast ==
    /\ Len(attempts) <= 4
    /\ \A i \in 1..Len(attempts) :
          attempts[i].Cat = <<"flow", "system", "degrade", "paramflow">>[i]
    /\ Len(subs) <= Len(attempts)
    /\ \A i \in 1..Len(subs) : subs[i] = attempts[i]
    /\ Len(attempts) > Len(subs)
          => (pc = "done" /\ ret = [kind |-> "listenErr", k |-> Len(attempts)])
    /\ ret.kind = "listenErr"
          => (pc = "done" /\ Len(attempts) = ret.k /\ Len(subs) = ret.k - 1)
    /\ ret.kind = "createErr"
          => (pc = "done" /\ session = <<>> /\ attempts = <<>>)
    /\ ret.kind = "nil" <=> Len(subs) = 4

\* C2 witness: the third registration failed after two had succeeded.
C2_Witness ==
    /\ pc = "done"
    /\ ret = [kind |-> "listenErr", k |-> 3]
    /\ Len(subs) = 2 /\ Len(attempts) = 3

\* C10: every subscription InitAcm has registered carries a non-empty
\* tenant id in its data-id.
C10_TenantIdNonEmpty ==
    \A i \in 1..Len(subs) :
        subs[i].DataId # ListenDataId(i, "", meta.namespace, AppName)

-----------------------------------------------------------------------------
(* Properties of the change handlers (SpecSync) *)

\* C3: every handler invocation, whatever the payload, returns normally (it
\* does not panic), and when decoding or the engine's replacement fails the
\* engine's rule sets are what they were before the notification.
C3_HandlersAlwaysReturn ==
    [][handled' # handled
          => /\ ~crashed'
             /\ lastOutcome' # "panic"
             /\ lastOutcome' \in {"decodeErr", "loadErr"} => engine' = engine]_vars

\* C4: the rule list onSystemRuleChange passes to the Rule Engine's
\* system-rule replacement holds no rule of the sentinel metric type 404.
C4_SentinelNeverLoaded ==
    (lastCat = "system" /\ lastOutcome \in {"loaded", "loadErr"})
        => \A i \in 1..Len(lastArg) : lastArg[i].MetricType # 404

\* The grade of a legacy circuit-breaking rule object is 0, 1 or 2.
GradeSupported(entry) == Field(entry.obj, "grade", 0) \in {N(0), N(1), N(2)}

\* C7: a circuit-breaking rule whose grade is not 0, 1 or 2 translates to nil;
\* for a batch that decodes (all of its entries rule objects),
\* onCircuitBreakingRuleChange calls the Rule Engine with the translations
\* of the batch's other rules, in their original order - the batch is not
\* failed - and an accepted list becomes the engine's circuit-breaking set.
C7_UnsupportedGradeDropped ==
    (lastCat = "degrade" /\ Unmarshals("degrade", lastPayload)
       /\ ~HasNull(lastPayload.Data))
    => LET data == lastPayload.Data
           kept == SelectSeq(data, GradeSupported)
       IN /\ \A i \in 1..Len(data) :
                ~GradeSupported(data[i])
                   <=> DegradeToGoRule(DecodeDegradeRule(data[i].obj)) = Nil
          /\ lastOutcome \in {"loaded", "loadErr"}
          /\ lastArg = [i \in 1..Len(kept) |->
                          DegradeToGoRule(DecodeDegradeRule(kept[i].obj))]
          /\ lastOutcome = "loaded" => engine["degrade"] = lastArg

\* C7 witness: a batch of an unsupported-grade rule followed by a supported
\* one was loaded as the single supported rule.
C7_Witness ==
    /\ lastCat = "degrade" /\ lastOutcome = "loaded"
    /\ Len(lastPayload.Data) = 2
    /\ ~HasNull(lastPayload.Data)
    /\ ~GradeSupported(lastPayload.Data[1])
    /\ GradeSupported(lastPayload.Data[2])
    /\ Len(lastArg) = 1
    /\ engine["degrade"] = lastArg

-----------------------------------------------------------------------------
(* Properties of the translators (SpecTranslate) *)

\* The five legacy metric fields in priority order, as the JSON object gives
\* them (an absent field is 0), and the metric type each stands for.
MetricFieldValues(o) ==
    <<Field(o, "avgRt", 0), Field(o, "maxThread", 0), Field(o, "qps", 0),
      Field(o, "highestCpuUsage", 0), Field(o, "highestSystemLoad", 0)>>
MetricFieldTypes == <<AvgRT, Concurrency, InboundQPS, CpuUsage, Load>>

\* C5: the translated system rule's (MetricType, TriggerCount) is the type
\* and value of the first of avgRt, maxThread, qps, highestCpuUsage,
\* highestSystemLoad that is >= 0, an absent field counting as 0, whatever
\* the later fields hold.
C5_FirstNonNegativeField ==
    (tIn.cat = "system" /\ tOut.kind = "rule")
    => LET v == MetricFieldValues(tIn.obj)
       IN \A i \in 1..5 :
             (v[i] >= 0 /\ \A j \in 1..(i - 1) : v[j] < 0)
                => /\ tOut.rule.MetricType = MetricFieldTypes[i]
                   /\ tOut.rule.TriggerCount = v[i]

\* C5 witness: avgRt and maxThread are negative, qps is absent from the JSON
\* and both later fields are present and >= 0: the rule is an inbound-QPS
\* rule of count 0.
C5_Witness ==
    /\ tIn.cat = "system" /\ tOut.kind = "rule"
    /\ Field(tIn.obj, "avgRt", 0) < 0 /\ Field(tIn.obj, "maxThread", 0) < 0
    /\ "qps" \notin DOMAIN tIn.obj
    /\ Field(tIn.obj, "highestCpuUsage", -1) >= 0
    /\ Field(tIn.obj, "highestSystemLoad", -1) > 0
    /\ tOut.rule.MetricType = InboundQPS /\ tOut.rule.TriggerCount = 0

\* The strategy a supported grade stands for.
StrategyOfGrade(g) ==
    CASE g = 0 -> "SlowRequestRatio" [] g = 1 -> "ErrorRatio" [] OTHER -> "ErrorCount"

\* The 64-bit limbs l hold the natural number n (0 <= n < 2^31).
LimbsAre(l, n) == l = <<n % 65536, n \div 65536, 0, 0>>

\* The 64-bit limbs l hold 2^64 - t (1 <= t <= 2^16): adding t wraps to 0.
LimbsAreMinus(l, t) ==
    /\ (l[1] + t) % 65536 = 0 /\ (l[1] + t) \div 65536 = 1
    /\ l[2] = 65535 /\ l[3] = 65535 /\ l[4] = 65535

UpperLetters ==
    <<"A", "B", "C", "D", "E", "F", "G", "H", "I", "J", "K", "L", "M",
      "N", "O", "P", "Q", "R", "S", "T", "U", "V", "W", "X", "Y", "Z">>
LowerLetters ==
    <<"a", "b", "c", "d", "e", "f", "g", "h", "i", "j", "k", "l", "m",
      "n", "o", "p", "q", "r", "s", "t", "u", "v", "w", "x", "y", "z">>

\* The type tag t with its letters in lower case.
ToLower(t) ==
    [i \in 1..Len(t) |->
        IF \E n \in 1..26 : UpperLetters[n] = t[i]
        THEN LowerLetters[CHOOSE n \in 1..26 : UpperLetters[n] = t[i]]
        ELSE t[i]]

\* The value kind the spec gives a type tag, matched without regard to case.
KindIgnoringCase(t) ==
    LET lt == ToLower(t)
    IN CASE lt \in {<<"i", "n", "t">>, <<"l", "o", "n", "g">>} -> "KindInt"
         [] lt \in {<<"b", "o", "o", "l">>, <<"b", "o", "o", "l", "e", "a", "n">>}
               -> "KindBool"
         [] lt \in {<<"d", "o", "u", "b", "l", "e">>, <<"f", "l", "o", "a", "t">>}
               -> "KindFloat64"
         [] OTHER -> "KindString"

\* An override item of the JSON list has a non-empty value.
HasValue(entry) == Field(entry.obj, "object", "") # ""

\* C8: the translated hot-spot rule has one item per override item with a
\* non-empty value, in order, and each one's value kind is the kind of the
\* item's type tag matched case-insensitively.
C8_KindIgnoresCase ==
    (tIn.cat = "paramflow" /\ tOut.kind = "rule")
    => LET ins == SelectSeq(Field(tIn.obj, "paramFlowItemList", <<>>), HasValue)
           outs == tOut.rule.SpecificItems
       IN /\ Len(outs) = Len(ins)
          /\ \A i \in 1..Len(ins) :
                outs[i].ValKind = KindIgnoringCase(Field(ins[i].obj, "classType", <<>>))

\* C9: the translated circuit-breaking rule's RetryTimeoutMs is timeWindow
\* times 1000: dividing it by 1000 gives timeWindow back with no remainder.
C9_RetryTimeoutExact ==
    (tIn.cat = "degrade" /\ tOut.kind = "rule")
    => LET w == IntField(tIn.obj, "timeWindow")
           ms == tOut.rule.RetryTimeoutMs
           q1 == ms[2] \div 1000
           low == (ms[2] % 1000) * 65536 + ms[1]
       IN /\ low % 1000 = 0
          /\ q1 * 65536 + (low \div 1000) = w

====
